---- MODULE Spec2Model ----
(***************************************************************************)
(* A model of the Breakout 2D game's entry point (2d-game/src/main.rs) and *)
(* of its lazily loading UTF-8 text renderer                               *)
(* (2d-game/src/text_renderer/utf8.rs),                                    *)
(* and of get_path (shared/src/filesystem.rs).                             *)
(*                                                                         *)
(* Four specifications share the module:                                   *)
(*   Spec      main(): the frame loop, the key callback, shutdown;         *)
(*   LiveSpec  Spec with weak fairness of main()'s own statements;         *)
(*   TextSpec  one TextRenderer: load, render_text_ex, the atlas, drop;    *)
(*   PathSpec  one call of get_path.                                       *)
(* Each leaves the variables of the others unchanged.                      *)
(***************************************************************************)
EXTENDS Integers, Sequences, FiniteSets, TLC

VARIABLES
    \* ---- main.rs ----
    pc,               \* the statement of main() that runs next
    should_close,     \* the window's close flag (window.should_close())
    keys,             \* Game::keys, restricted to the tracked key codes
    keys_processed,   \* Game::keys_processed, restricted likewise
    GAME_OBJ_PTR,     \* "null" | "valid" | "freed"
    clear_calls,      \* calls of resource_manager::clear() so far
    \* history of main(), written by the steps and read only by properties
    steps,            \* the steps run so far in the current loop iteration
    last_event,       \* arguments of the latest key_callback call
    fired,            \* per key: actions fired since that key's last Release
    pressed,          \* per key: a Press was delivered since its last Release
    polled,           \* per key: what this frame's poll delivered so far
    \* the clock of main(), in units of 2^-27 s
    clock,            \* the latest value glfw.get_time() returned (an f64)
    last_frame,       \* main.rs:142 let mut last_frame (an f32)
    delta_time,       \* main.rs:148 let delta_time (an f32)
    dt_hist,          \* history: previous sample, the arguments passed, the sum
    \* ---- text_renderer/utf8.rs ----
    tpc,              \* "ready" | "panicked" | "dropped"
    ft_helper,        \* FTHelper: initialized, font_size, face, characters
    gl_textures,      \* GL texture store: name i holds gl_textures[i]
    draws,            \* the quads drawn by the latest render_text_ex call
    last_op,          \* "none" | "load" | "render"
    last_call,        \* arguments and outcome of the latest render_text_ex
    ft_heap,          \* FreeType handles: FTHelper's ft and face, and every
                      \* library and face created and released so far
    \* ---- shared/src/filesystem.rs ----
    path_call         \* one get_path call: cwd, argument, result, done

mainVars == <<pc, should_close, keys, keys_processed, GAME_OBJ_PTR, clear_calls,
              steps, last_event, fired, pressed, polled,
              clock, last_frame, delta_time, dt_hist>>
timeVars == <<clock, last_frame, delta_time, dt_hist>>
textVars == <<tpc, ft_helper, gl_textures, draws, last_op, last_call, ft_heap>>
pathVars == <<path_call>>
vars == <<mainVars, textVars, pathVars>>

(***************************************************************************)
(* Bounds of the model.                                                    *)
(***************************************************************************)
\* history counters saturate here
MaxCount == 3
\* longest text handed to render_text_ex
MaxTextLen == 2
\* longest path handed to get_path
MaxPathLen == 4
\* most calls of TextRenderer::load on one renderer
MaxLoads == 2

(***************************************************************************)
(* main.rs: key codes (values of glfw::Key) and actions.                   *)
(***************************************************************************)
KeyUnknown == 0 - 1
KeySpace == 32
KeyEscape == 256
KeyEnter == 257
\* end of the range test (0..1024) in key_callback
KeyRangeEnd == 1024
\* length of Game::keys and Game::keys_processed
KeysLen == 1024

\* the key codes events are drawn from
EventKeys == {KeyUnknown, KeySpace, KeyEscape, KeyEnter}
\* the array entries the model keeps
TrackedKeys == {k \in EventKeys : k \in 0..(KeysLen - 1)}
\* keys whose action Game::process_input guards by keys_processed
SingleTriggerKeys == {KeySpace, KeyEnter}
Actions == {"Press", "Release", "Repeat"}

NoEvent == [key |-> KeyUnknown, action |-> "none"]

\* history counter increment, saturating at MaxCount
Bump(n) == IF n < MaxCount THEN n + 1 ELSE n

\* the steps of one loop iteration, in the order of main.rs:150-168
FrameSteps == <<"poll_events", "process_input", "update", "render", "swap_buffers">>

\* `key as usize' used as an index: out of bounds panics
IndexOk(key) == key \in 0..(KeysLen - 1)

\* InKeyRange with the lower end of the range forgotten
InKeyRangeNoLowerBound(key) == key < KeyRangeEnd

\* (0..1024).contains(&(key as i32))
InKeyRange(key) == key \in 0..(KeyRangeEnd - 1)

\* MainFlow with update called before process_input
MainFlowUpdateFirst(p, close) ==
    CASE p = "init_game"     -> "loop_test"
      [] p = "loop_test"     -> IF close THEN "clear" ELSE "poll"
      [] p = "poll"          -> "update"
      [] p = "update"        -> "process_input"
      [] p = "process_input" -> "render"
      [] p = "render"        -> "swap"
      [] p = "swap"          -> "loop_test"
      [] p = "clear"         -> "drop"
      [] p = "drop"          -> "done"
      [] OTHER               -> p

\* MainFlow with the close flag also tested right after poll_events
MainFlowBreakAfterPoll(p, close) ==
    CASE p = "init_game"     -> "loop_test"
      [] p = "loop_test"     -> IF close THEN "clear" ELSE "poll"
      [] p = "poll"          -> IF close THEN "clear" ELSE "process_input"
      [] p = "process_input" -> "update"
      [] p = "update"        -> "render"
      [] p = "render"        -> "swap"
      [] p = "swap"          -> "loop_test"
      [] p = "clear"         -> "drop"
      [] p = "drop"          -> "done"
      [] OTHER               -> p

\* MainFlow with drop_game_obj() called before resource_manager::clear()
MainFlowDropBeforeClear(p, close) ==
    CASE p = "init_game"     -> "loop_test"
      [] p = "loop_test"     -> IF close THEN "drop" ELSE "poll"
      [] p = "poll"          -> "process_input"
      [] p = "process_input" -> "update"
      [] p = "update"        -> "render"
      [] p = "render"        -> "swap"
      [] p = "swap"          -> "loop_test"
      [] p = "drop"          -> "clear"
      [] p = "clear"         -> "done"
      [] OTHER               -> p

\* MainFlow with drop_game_obj() called at the end of the loop body
MainFlowDropInsideLoop(p, close) ==
    CASE p = "init_game"     -> "loop_test"
      [] p = "loop_test"     -> IF close THEN "clear" ELSE "poll"
      [] p = "poll"          -> "process_input"
      [] p = "process_input" -> "update"
      [] p = "update"        -> "render"
      [] p = "render"        -> "swap"
      [] p = "swap"          -> "drop"
      [] p = "drop"          -> "loop_test"
      [] p = "clear"         -> "done"
      [] OTHER               -> p

\* the flow of control of main() from statement p on, the close flag being `close'
MainFlow(p, close) ==
    CASE p = "init_game"     -> "loop_test"
      [] p = "loop_test"     -> IF close THEN "clear" ELSE "poll"
      [] p = "poll"          -> "process_input"
      [] p = "process_input" -> "update"
      [] p = "update"        -> "render"
      [] p = "render"        -> "swap"
      [] p = "swap"          -> "loop_test"
      [] p = "clear"         -> "drop"
      [] p = "drop"          -> "done"
      [] OTHER               -> p

\* CallbackClose with the test of the action forgotten
CallbackCloseAnyAction(key, action, close) ==
    IF key = KeyEscape THEN TRUE ELSE close

\* CallbackClose testing for Release instead of Press
CallbackCloseOnRelease(key, action, close) ==
    IF key = KeyEscape /\ action = "Release" THEN TRUE ELSE close

\* what key_callback does to the window's close flag
CallbackClose(key, action, close) ==
    IF key = KeyEscape /\ action = "Press" THEN TRUE ELSE close

\* CallbackArrays with a Press also clearing keys_processed[key]
CallbackArraysPressResets(key, action, ks, kp) ==
    IF InKeyRange(key) /\ IndexOk(key) /\ key \in DOMAIN ks
    THEN IF action = "Press"
         THEN [keys |-> [ks EXCEPT ![key] = TRUE],
               keys_processed |-> [kp EXCEPT ![key] = FALSE], panic |-> FALSE]
         ELSE IF action = "Release"
         THEN [keys |-> [ks EXCEPT ![key] = FALSE],
               keys_processed |-> [kp EXCEPT ![key] = FALSE], panic |-> FALSE]
         ELSE [keys |-> ks, keys_processed |-> kp, panic |-> FALSE]
    ELSE [keys |-> ks, keys_processed |-> kp, panic |-> FALSE]

\* CallbackArrays with a plain else for the second branch: a Repeat clears
\* the entries like a Release
CallbackArraysRepeatClears(key, action, ks, kp) ==
    IF InKeyRange(key) /\ IndexOk(key) /\ key \in DOMAIN ks
    THEN IF action = "Press"
         THEN [keys |-> [ks EXCEPT ![key] = TRUE], keys_processed |-> kp,
               panic |-> FALSE]
         ELSE [keys |-> [ks EXCEPT ![key] = FALSE],
               keys_processed |-> [kp EXCEPT ![key] = FALSE], panic |-> FALSE]
    ELSE [keys |-> ks, keys_processed |-> kp, panic |-> FALSE]

\* CallbackArrays with a Release that clears keys_processed[key] only
CallbackArraysReleaseKeepsKey(key, action, ks, kp) ==
    IF InKeyRange(key) /\ IndexOk(key) /\ key \in DOMAIN ks
    THEN IF action = "Press"
         THEN [keys |-> [ks EXCEPT ![key] = TRUE], keys_processed |-> kp,
               panic |-> FALSE]
         ELSE IF action = "Release"
         THEN [keys |-> ks, keys_processed |-> [kp EXCEPT ![key] = FALSE],
               panic |-> FALSE]
         ELSE [keys |-> ks, keys_processed |-> kp, panic |-> FALSE]
    ELSE [keys |-> ks, keys_processed |-> kp, panic |-> FALSE]

\* what key_callback does to the two arrays: the new arrays, and whether an
\* index was out of bounds (a panic)
CallbackArrays(key, action, ks, kp) ==
    IF InKeyRange(key)
    THEN IF action = "Press"
         THEN IF IndexOk(key)
              THEN [keys |-> IF key \in DOMAIN ks THEN [ks EXCEPT ![key] = TRUE] ELSE ks,
                    keys_processed |-> kp, panic |-> FALSE]
              ELSE [keys |-> ks, keys_processed |-> kp, panic |-> TRUE]
         ELSE IF action = "Release"
         THEN IF IndexOk(key)
              THEN [keys |-> IF key \in DOMAIN ks THEN [ks EXCEPT ![key] = FALSE] ELSE ks,
                    keys_processed |->
                        IF key \in DOMAIN kp THEN [kp EXCEPT ![key] = FALSE] ELSE kp,
                    panic |-> FALSE]
              ELSE [keys |-> ks, keys_processed |-> kp, panic |-> TRUE]
         ELSE [keys |-> ks, keys_processed |-> kp, panic |-> FALSE]
    ELSE [keys |-> ks, keys_processed |-> kp, panic |-> FALSE]

\* what one poll has delivered for a key, after one more event for that key
PollSummary(cur, action) ==
    CASE action = "Press"   -> "Press"
      [] action = "Release" -> IF cur = "Press" THEN "PressRelease"
                               ELSE IF cur = "none" THEN "Release" ELSE cur
      [] OTHER              -> cur

\* significand bits of an f32
F32Mantissa == 24

\* the spacing of the f32 values around n (n >= 0 in clock units)
RECURSIVE F32Ulp(_)
F32Ulp(n) == IF n < 2^F32Mantissa THEN 1 ELSE 2 * F32Ulp(n \div 2)

\* the f32 nearest to n, ties to even (n >= 0)
F32RoundAbs(n) ==
    LET u == F32Ulp(n)
        q == n \div u
        r == n % u
    IN  IF 2 * r > u \/ (2 * r = u /\ q % 2 = 1) THEN (q + 1) * u ELSE q * u

\* the f32 nearest to n
F32Round(n) == IF n < 0 THEN 0 - F32RoundAbs(0 - n) ELSE F32RoundAbs(n)

\* main.rs:147 glfw.get_time() as f32
AsF32(t) == F32Round(t)

\* f32 subtraction: the exact difference, rounded
F32Sub(a, b) == F32Round(a - b)

\* DeltaTime with the operands swapped
DeltaTimeReversed(current_frame, last) == F32Sub(last, current_frame)

\* main.rs:148 current_frame - last_frame
DeltaTime(current_frame, last) == F32Sub(current_frame, last)

\* the values glfw.get_time() returns in the model: about 0.1 s, twice that,
\* and about 0.39 s (the last is not an f32)
Times == {13421774, 26843548, 52554109}

NoHistory == [prev |-> 0, input |-> 0, update |-> 0, sum |-> 0, within2 |-> TRUE]

\* Game::process_input: the single-trigger keys that fire this frame
FiringKeys(ks, kp) == {k \in SingleTriggerKeys : ks[k] /\ ~kp[k]}

(***************************************************************************)
(* main(): initial state (main.rs:94-133: window created, callbacks        *)
(* registered, the game not yet constructed).                              *)
(***************************************************************************)
MainInit ==
    /\ pc = "init_game"
    /\ should_close = FALSE
    /\ keys = [k \in TrackedKeys |-> FALSE]
    /\ keys_processed = [k \in TrackedKeys |-> FALSE]
    /\ GAME_OBJ_PTR = "null"
    /\ clear_calls = 0
    /\ steps = <<>>
    /\ last_event = NoEvent
    /\ fired = [k \in TrackedKeys |-> 0]
    /\ pressed = [k \in TrackedKeys |-> FALSE]
    /\ polled = [k \in TrackedKeys |-> "none"]
    /\ clock = 0
    /\ last_frame = 0
    /\ delta_time = 0
    /\ dt_hist = NoHistory

\* main.rs:137-138 init_game_obj(..); game_obj_mut().init()
init_game_obj ==
    /\ pc = "init_game"
    /\ GAME_OBJ_PTR' = "valid"
    /\ pc' = MainFlow(pc, should_close)
    /\ UNCHANGED <<should_close, keys, keys_processed, clear_calls, steps,
                   last_event, fired, pressed, polled, timeVars>>
    /\ UNCHANGED <<textVars, pathVars>>

\* main.rs:144-149 while !window.should_close(), and in the loop the sampling
\* of the clock (which never runs backwards)
loop_test ==
    /\ pc = "loop_test"
    /\ pc' = MainFlow(pc, should_close)
    /\ steps' = IF pc' = "poll" THEN <<>> ELSE steps
    /\ IF pc' = "poll"
       THEN \E t \in Times :
              /\ t >= clock
              /\ clock' = t
              /\ last_frame' = AsF32(t)
              /\ delta_time' = DeltaTime(AsF32(t), last_frame)
              /\ dt_hist' = [dt_hist EXCEPT
                                !.prev = last_frame,
                                !.sum = @ + DeltaTime(AsF32(t), last_frame),
                                !.within2 = @ /\ (last_frame = 0
                                                    \/ AsF32(t) <= 2 * last_frame)]
       ELSE UNCHANGED timeVars
    /\ UNCHANGED <<should_close, keys, keys_processed, GAME_OBJ_PTR, clear_calls,
                   last_event, fired, pressed, polled>>
    /\ UNCHANGED <<textVars, pathVars>>

\* main.rs:202-221, called by GLFW from inside poll_events
key_callback(key, action) ==
    /\ pc = "poll"
    /\ LET r == CallbackArrays(key, action, keys, keys_processed) IN
        /\ keys' = r.keys
        /\ keys_processed' = r.keys_processed
        /\ pc' = IF r.panic THEN "panicked" ELSE pc
    /\ should_close' = CallbackClose(key, action, should_close)
    /\ last_event' = [key |-> key, action |-> action]
    /\ fired' = IF key \in TrackedKeys /\ action = "Release"
                THEN [fired EXCEPT ![key] = 0] ELSE fired
    /\ pressed' = IF key \in TrackedKeys /\ action = "Press"
                  THEN [pressed EXCEPT ![key] = TRUE]
                  ELSE IF key \in TrackedKeys /\ action = "Release"
                  THEN [pressed EXCEPT ![key] = FALSE]
                  ELSE pressed
    /\ polled' = IF key \in TrackedKeys
                 THEN [polled EXCEPT ![key] = PollSummary(@, action)]
                 ELSE polled
    /\ UNCHANGED <<GAME_OBJ_PTR, clear_calls, steps, timeVars>>
    /\ UNCHANGED <<textVars, pathVars>>

KeyEvent == \E key \in EventKeys, action \in Actions : key_callback(key, action)

\* the user closes the window: GLFW sets the close flag while polling
window_close_request ==
    /\ pc = "poll"
    /\ should_close' = TRUE
    /\ UNCHANGED <<pc, keys, keys_processed, GAME_OBJ_PTR, clear_calls, steps,
                   last_event, fired, pressed, polled, timeVars>>
    /\ UNCHANGED <<textVars, pathVars>>

\* main.rs:150 glfw.poll_events() returns
poll_events ==
    /\ pc = "poll"
    /\ pc' = MainFlow(pc, should_close)
    /\ steps' = Append(steps, "poll_events")
    /\ UNCHANGED <<should_close, keys, keys_processed, GAME_OBJ_PTR, clear_calls,
                   last_event, fired, pressed, polled, timeVars>>
    /\ UNCHANGED <<textVars, pathVars>>

\* main.rs:154 game_obj_mut().process_input(delta_time)
process_input ==
    /\ pc = "process_input"
    /\ LET f == FiringKeys(keys, keys_processed) IN
        /\ keys_processed' = [k \in TrackedKeys |->
                                 IF k \in f THEN TRUE ELSE keys_processed[k]]
        /\ fired' = [k \in TrackedKeys |->
                        IF k \in f THEN Bump(fired[k]) ELSE fired[k]]
    /\ pc' = MainFlow(pc, should_close)
    /\ steps' = Append(steps, "process_input")
    /\ polled' = [k \in TrackedKeys |-> "none"]
    /\ dt_hist' = [dt_hist EXCEPT !.input = delta_time]
    /\ UNCHANGED <<should_close, keys, GAME_OBJ_PTR, clear_calls, last_event, pressed,
                   clock, last_frame, delta_time>>
    /\ UNCHANGED <<textVars, pathVars>>

\* main.rs:158 game_obj_mut().update(delta_time)
update ==
    /\ pc = "update"
    /\ pc' = MainFlow(pc, should_close)
    /\ steps' = Append(steps, "update")
    /\ dt_hist' = [dt_hist EXCEPT !.update = delta_time]
    /\ UNCHANGED <<should_close, keys, keys_processed, GAME_OBJ_PTR, clear_calls,
                   last_event, fired, pressed, polled, clock, last_frame, delta_time>>
    /\ UNCHANGED <<textVars, pathVars>>

\* main.rs:162-166 clear the colour buffer; game_obj().render()
render ==
    /\ pc = "render"
    /\ pc' = MainFlow(pc, should_close)
    /\ steps' = Append(steps, "render")
    /\ UNCHANGED <<should_close, keys, keys_processed, GAME_OBJ_PTR, clear_calls,
                   last_event, fired, pressed, polled, timeVars>>
    /\ UNCHANGED <<textVars, pathVars>>

\* main.rs:168 window.swap_buffers()
swap_buffers ==
    /\ pc = "swap"
    /\ pc' = MainFlow(pc, should_close)
    /\ steps' = Append(steps, "swap_buffers")
    /\ UNCHANGED <<should_close, keys, keys_processed, GAME_OBJ_PTR, clear_calls,
                   last_event, fired, pressed, polled, timeVars>>
    /\ UNCHANGED <<textVars, pathVars>>

\* main.rs:173 resource_manager::clear()
resource_manager_clear ==
    /\ pc = "clear"
    /\ clear_calls' = Bump(clear_calls)
    /\ pc' = MainFlow(pc, should_close)
    /\ UNCHANGED <<should_close, keys, keys_processed, GAME_OBJ_PTR, steps,
                   last_event, fired, pressed, polled, timeVars>>
    /\ UNCHANGED <<textVars, pathVars>>

\* main.rs:175 drop_game_obj()
drop_game_obj ==
    /\ pc = "drop"
    /\ GAME_OBJ_PTR' = "freed"
    /\ pc' = MainFlow(pc, should_close)
    /\ UNCHANGED <<should_close, keys, keys_processed, clear_calls, steps,
                   last_event, fired, pressed, polled, timeVars>>
    /\ UNCHANGED <<textVars, pathVars>>

(***************************************************************************)
(* text_renderer/utf8.rs.  Pixel coordinates and the scale are f32 in the  *)
(* source; the model draws them from small sets of integers, on which the  *)
(* additions and multiplications of f32 are exact.                         *)
(***************************************************************************)
Chars == {"H", "a", "g"}
Fonts == {"game.ttf", "missing.ttf"}
PixelSizes == {3, 5}
Scales == {2}
StartXs == {7}
StartYs == {10}
\* FT_Load_Char fails on no character, or on one
BrokenSets == {{}} \cup {{c} : c \in Chars}
\* the null FT_Face handle
NullFace == [font |-> "", size |-> 0]
\* no render_text_ex call yet
NoCall == [text |-> <<>>, x |-> 0, y |-> 0, scale |-> 1, end_x |-> 0, failed |-> ""]

\* the texts render_text_ex is called with
Texts == UNION {[1..n -> Chars] : n \in 0..MaxTextLen}

\* FT_New_Face succeeds on a font file that exists
FontExists(font) == font = "game.ttf"

\* FT_Load_Char: fails on an invalid face handle, and for the glyphs in `broken'
FT_Load_Char_ok(face, c, broken) == face # NullFace /\ c \notin broken

\* the glyph slot FT_Load_Char fills: metrics of character c at the face's pixel
\* size (advance in 1/64 pixel)
GlyphSlot(face, c) ==
    LET adv == CASE c = "H" -> 45 [] c = "a" -> 29 [] OTHER -> 70
        top == CASE c = "H" -> 7 [] c = "a" -> 5 [] OTHER -> 4
        left == CASE c = "H" -> 1 [] c = "a" -> 0 [] OTHER -> 2
    IN [width |-> (adv * face.size) \div 64,
        rows |-> top * face.size,
        bitmap_left |-> left,
        bitmap_top |-> top * face.size,
        advance_x |-> adv * face.size]

\* FTHelper::default()
FTHelper_default ==
    [initialized |-> FALSE, font_size |-> 0, face |-> NullFace, characters |-> <<>>]

\* FTHelper::init: a face that fails to load leaves self.face as it was, and
\* FT_Set_Pixel_Sizes then resizes that face (or fails on the null handle)
FTHelper_init(h, font, font_size) ==
    [initialized |-> TRUE,
     font_size |-> font_size,
     face |-> IF FontExists(font) THEN [font |-> font, size |-> font_size]
              ELSE IF h.face = NullFace THEN NullFace
              ELSE [font |-> h.face.font, size |-> font_size],
     characters |-> h.characters]

\* the FreeType handles of FTHelper::default(): both null (0), nothing created
NoHandles == [ft |-> 0, face |-> 0, libs |-> 0, faces |-> <<>>,
              done_libs |-> {}, done_faces |-> {}, twice |-> FALSE]

\* FTHelper::init on the handles: FT_Init_FreeType stores a new library in
\* self.ft; FT_New_Face stores a new face of that library in self.face when
\* the font loads, and leaves self.face as it was when it does not
FTHelper_init_handles(heap, font) ==
    LET lib == heap.libs + 1 IN
    [heap EXCEPT !.libs = lib,
                 !.ft = lib,
                 !.faces = IF FontExists(font) THEN Append(@, lib) ELSE @,
                 !.face = IF FontExists(font) THEN Len(heap.faces) + 1 ELSE @]

\* FT_Done_Face: an error on the null handle, else the face is released
FT_Done_Face(heap, face) ==
    IF face = 0 THEN heap
    ELSE [heap EXCEPT !.done_faces = @ \cup {face},
                      !.twice = @ \/ face \in heap.done_faces]

\* FT_Done_FreeType: the library is released, and with it its open faces
FT_Done_FreeType(heap, lib) ==
    IF lib = 0 THEN heap
    ELSE [heap EXCEPT !.done_libs = @ \cup {lib},
                      !.done_faces = @ \cup {f \in 1..Len(heap.faces) : heap.faces[f] = lib},
                      !.twice = @ \/ lib \in heap.done_libs]

\* impl Drop for FTHelper
FTHelper_drop(h, heap) ==
    IF h.initialized THEN FT_Done_FreeType(FT_Done_Face(heap, heap.face), heap.ft)
    ELSE heap

\* IsLoaded with a comparison that never matches
IsLoadedNever(characters, c) == FALSE

\* self.characters.iter().any(|it| c == *it.0)
IsLoaded(characters, c) == c \in DOMAIN characters

\* HashMap::insert
MapInsert(m, k, v) == [x \in DOMAIN m \cup {k} |-> IF x = k THEN v ELSE m[x]]

\* FTHelper::load: the helper, the GL texture store and the returned bool
FTHelper_load(h, tex, c, broken) ==
    IF IsLoaded(h.characters, c)
    THEN [h |-> h, tex |-> tex, ok |-> FALSE, failed |-> FALSE]
    ELSE IF ~FT_Load_Char_ok(h.face, c, broken)
    THEN [h |-> h, tex |-> tex, ok |-> FALSE, failed |-> TRUE]
    ELSE LET g == GlyphSlot(h.face, c)
             texture == Len(tex) + 1
             character == [texture_id |-> texture,
                           size |-> [x |-> g.width, y |-> g.rows],
                           bearing |-> [x |-> g.bitmap_left, y |-> g.bitmap_top],
                           advance |-> g.advance_x]
         IN [h |-> [h EXCEPT !.characters = MapInsert(h.characters, c, character)],
             tex |-> Append(tex, [ch |-> c, face |-> h.face]),
             ok |-> TRUE, failed |-> FALSE]

\* FTHelper::get_or_load: indexing the map with an absent key panics
get_or_load(h, tex, c, broken) ==
    LET r == IF ~IsLoaded(h.characters, c)
             THEN FTHelper_load(h, tex, c, broken)
             ELSE [h |-> h, tex |-> tex, ok |-> FALSE, failed |-> FALSE]
    IN IF c \in DOMAIN r.h.characters
       THEN [h |-> r.h, tex |-> r.tex, panic |-> FALSE, failed |-> r.failed,
             ch |-> r.h.characters[c]]
       ELSE [h |-> r.h, tex |-> r.tex, panic |-> TRUE, failed |-> r.failed,
             ch |-> [texture_id |-> 0]]

\* AdvancePixels with the shift by 6 forgotten
AdvancePixelsNoShift(ch, scale) == ch.advance * scale

\* (ch.advance >> 6) as f32 * scale
AdvancePixels(ch, scale) == (ch.advance \div 64) * scale

\* GlyphY with the two bearings swapped
GlyphYReversed(y, ref, ch, scale) == y + (ch.bearing.y - ref.bearing.y) * scale

\* y + (get_or_load('H').bearing.y - ch.bearing.y) as f32 * scale
GlyphY(y, ref, ch, scale) == y + (ref.bearing.y - ch.bearing.y) * scale

\* the loop of render_text_ex from character i of the text on; st holds the
\* helper, the texture store, the pen, the quads drawn, and whether it panicked
RECURSIVE RenderFrom(_, _, _, _, _, _)
RenderFrom(st, text, i, y, scale, broken) ==
    IF i > Len(text) \/ st.panic THEN st
    ELSE LET c == text[i]
             g == get_or_load(st.h, st.tex, c, broken)
         IN IF g.panic
            THEN [st EXCEPT !.h = g.h, !.tex = g.tex, !.panic = TRUE, !.failed = c]
            ELSE LET r == get_or_load(g.h, g.tex, "H", broken) IN
                 IF r.panic
                 THEN [st EXCEPT !.h = r.h, !.tex = r.tex, !.panic = TRUE,
                                 !.failed = "H"]
                 ELSE LET ch == g.ch
                          quad == [c |-> c,
                                   pen |-> st.x,
                                   xpos |-> st.x + ch.bearing.x * scale,
                                   ypos |-> GlyphY(y, r.ch, ch, scale),
                                   w |-> ch.size.x * scale,
                                   h |-> ch.size.y * scale,
                                   texture |-> ch.texture_id]
                      IN RenderFrom([h |-> r.h, tex |-> r.tex,
                                     x |-> st.x + AdvancePixels(ch, scale),
                                     draws |-> Append(st.draws, quad),
                                     panic |-> FALSE, failed |-> ""],
                                    text, i + 1, y, scale, broken)


(***************************************************************************)
(* shared/src/filesystem.rs.  A string is a sequence of characters; paths  *)
(* are Unix paths (separator "/").                                         *)
(***************************************************************************)
PathChars == {"/", "a", "b"}
\* the arguments get_path is called with
Paths == UNION {[1..n -> PathChars] : n \in 0..MaxPathLen}
\* the working directories env::current_dir() returns (absolute, UTF-8)
Cwds == {<<"/">>, <<"/", "w">>, <<"/", "w", "/", "d">>}

NoPathCall == [cwd |-> <<"/">>, path |-> <<>>, result |-> <<>>, done |-> FALSE]

\* str::split('/'): the segments between separators, empty ones included;
\* the empty string has one (empty) segment
RECURSIVE Split(_)
Split(str) ==
    IF \A i \in 1..Len(str) : str[i] # "/" THEN <<str>>
    ELSE LET i == CHOOSE j \in 1..Len(str) :
                      str[j] = "/" /\ \A k \in 1..(j - 1) : str[k] # "/"
         IN <<SubSeq(str, 1, i - 1)>> \o Split(SubSeq(str, i + 1, Len(str)))

\* PathBuf::push with the separator forgotten
PathPushNoSeparator(buf, part) ==
    IF part # <<>> /\ part[1] = "/" THEN part ELSE buf \o part

\* PathBuf::push (Unix): an absolute part replaces the buffer; otherwise a
\* separator is added unless the buffer is empty or ends with one
PathPush(buf, part) ==
    IF part # <<>> /\ part[1] = "/" THEN part
    ELSE IF buf # <<>> /\ buf[Len(buf)] # "/" THEN buf \o <<"/">> \o part
    ELSE buf \o part

\* for part in path_parts.iter() { cur_path.push(part); }
RECURSIVE PushAll(_, _, _)
PushAll(buf, parts, i) ==
    IF i > Len(parts) THEN buf ELSE PushAll(PathPush(buf, parts[i]), parts, i + 1)

\* get_path
GetPath(cwd, path) == PushAll(cwd, Split(path), 1)

\* the calls get_path may be entered with
PathCalls == {[cwd |-> c, path |-> p, result |-> <<>>, done |-> FALSE] :
                c \in Cwds, p \in Paths}

\* filesystem.rs:19-26
get_path ==
    /\ ~path_call.done
    /\ path_call' = [path_call EXCEPT !.result = GetPath(path_call.cwd, path_call.path),
                                      !.done = TRUE]
    /\ UNCHANGED <<mainVars, textVars>>

TextInit ==
    /\ tpc = "ready"
    /\ ft_helper = FTHelper_default
    /\ gl_textures = <<>>
    /\ draws = <<>>
    /\ last_op = "none"
    /\ last_call = NoCall
    /\ ft_heap = NoHandles

\* TextRenderer::load
TextRenderer_load(font, font_size) ==
    /\ tpc = "ready"
    /\ ft_heap.libs < MaxLoads
    /\ ft_helper' = FTHelper_init(ft_helper, font, font_size)
    /\ ft_heap' = FTHelper_init_handles(ft_heap, font)
    /\ last_op' = "load"
    /\ draws' = <<>>
    /\ last_call' = NoCall
    /\ UNCHANGED <<tpc, gl_textures>>
    /\ UNCHANGED <<mainVars, pathVars>>

\* ITextRenderer::render_text_ex (render_text calls it with the colour white);
\* `broken' are the characters FT_Load_Char fails on during this call
render_text_ex(text, x, y, scale, broken) ==
    /\ tpc = "ready"
    /\ \E st \in {RenderFrom([h |-> ft_helper, tex |-> gl_textures, x |-> x,
                             draws |-> <<>>, panic |-> FALSE, failed |-> ""],
                            text, 1, y, scale, broken)} :
          /\ ft_helper' = st.h
          /\ gl_textures' = st.tex
          /\ draws' = st.draws
          /\ tpc' = IF st.panic THEN "panicked" ELSE "ready"
          /\ last_call' = [text |-> text, x |-> x, y |-> y, scale |-> scale,
                           end_x |-> st.x, failed |-> st.failed]
    /\ last_op' = "render"
    /\ UNCHANGED <<ft_heap, mainVars, pathVars>>

\* the TextRenderer goes out of scope: its FTHelper is dropped
drop_text_renderer ==
    /\ tpc = "ready"
    /\ tpc' = "dropped"
    /\ ft_heap' = FTHelper_drop(ft_helper, ft_heap)
    /\ UNCHANGED <<ft_helper, gl_textures, draws, last_op, last_call>>
    /\ UNCHANGED <<mainVars, pathVars>>

LoadCall == \E font \in Fonts, font_size \in PixelSizes : TextRenderer_load(font, font_size)

RenderCall ==
    \E text \in Texts, x \in StartXs, y \in StartYs, scale \in Scales,
       broken \in BrokenSets :
        render_text_ex(text, x, y, scale, broken)

Init == MainInit /\ TextInit /\ path_call = NoPathCall

Next ==
    \/ init_game_obj
    \/ loop_test
    \/ KeyEvent
    \/ window_close_request
    \/ poll_events
    \/ process_input
    \/ update
    \/ render
    \/ swap_buffers
    \/ resource_manager_clear
    \/ drop_game_obj

Spec == Init /\ [][Next]_vars

(***************************************************************************)
(* Properties of main() (checked under Spec).                              *)
(***************************************************************************)
IsPrefix(s, t) == Len(s) <= Len(t) /\ \A i \in 1..Len(s) : s[i] = t[i]

LoopPcs == {"loop_test", "poll", "process_input", "update", "render", "swap"}
ExitPcs == {"clear", "drop", "done"}
OutOfRangeKeys == {k \in EventKeys : k \notin 0..1023}

\* C1: in every iteration of the frame loop the steps run in the order
\* poll_events, process_input, update, render, swap_buffers, each exactly once:
\* the steps run so far in an iteration are always a prefix of that order, each
\* step starts when exactly its predecessors have run, and the loop test is
\* reached only with no step or with all five run.
FrameOrder ==
    /\ IsPrefix(steps, FrameSteps)
    /\ pc = "poll" => Len(steps) = 0
    /\ pc = "process_input" => Len(steps) = 1
    /\ pc = "update" => Len(steps) = 2
    /\ pc = "render" => Len(steps) = 3
    /\ pc = "swap" => Len(steps) = 4
    /\ pc = "loop_test" => steps \in {<<>>, FrameSteps}

\* a whole iteration has run and the loop goes on
FrameOrderWitness ==
    pc = "loop_test" /\ steps = FrameSteps /\ ~should_close

\* C2: the loop is left only from the loop test, with the close flag set and
\* after a complete iteration; with the flag set the loop test starts no
\* further iteration; so an iteration in whose poll step the flag became true
\* still runs process_input, update, render and swap_buffers.
ExitOnlyAtLoopTop ==
    [][/\ (pc' \in ExitPcs /\ pc \notin ExitPcs)
            => (pc = "loop_test" /\ should_close /\ steps = FrameSteps)
       /\ (pc = "loop_test" /\ should_close) => pc' = "clear"
       /\ (pc \in {"poll", "process_input", "update", "render", "swap"})
            => pc' \in LoopPcs]_vars

\* Escape was pressed in this iteration's poll step and the iteration still
\* reached swap_buffers
ExitOnlyAtLoopTopWitness ==
    /\ pc = "swap"
    /\ should_close
    /\ last_event = [key |-> KeyEscape, action |-> "Press"]

\* C3: resource_manager::clear() is called exactly once on the way to
\* shutdown: never while the loop runs, after the last iteration's
\* swap_buffers, and before the Game object is dropped.
ClearOnceAtShutdown ==
    /\ clear_calls <= 1
    /\ pc \in LoopPcs \cup {"init_game", "clear"} => clear_calls = 0
    /\ pc \in {"drop", "done"} => clear_calls = 1
    /\ GAME_OBJ_PTR = "freed" => clear_calls = 1
    /\ clear_calls = 1 => steps = FrameSteps

\* main() has returned
ClearOnceWitness ==
    pc = "done" /\ clear_calls = 1 /\ GAME_OBJ_PTR = "freed"

\* C4: a key event whose code is outside 0..1023 leaves both arrays as they
\* were and indexes neither (no out-of-bounds panic), whatever the action.
OutOfRangeKeyIgnored ==
    [][\A k \in OutOfRangeKeys, a \in Actions :
          key_callback(k, a)
            => /\ keys' = keys
               /\ keys_processed' = keys_processed
               /\ pc' # "panicked"]_vars

\* a Press of the unknown key (-1) was delivered while another key was down
OutOfRangeKeyWitness ==
    /\ last_event = [key |-> KeyUnknown, action |-> "Press"]
    /\ keys[KeySpace]
    /\ keys_processed[KeySpace]

\* C5 as stated: key_callback changes nothing but the two arrays.
CallbackOnlyTouchesArrays ==
    [][KeyEvent => UNCHANGED <<should_close, pc, GAME_OBJ_PTR, clear_calls>>]_vars

\* C5 amended: key_callback changes nothing but the two arrays and, for a
\* Press of Escape only, the window's close flag, which it sets.
CallbackTouchesArraysAndClose ==
    [][\A k \in EventKeys, a \in Actions :
          key_callback(k, a)
            => /\ UNCHANGED <<pc, GAME_OBJ_PTR, clear_calls>>
               /\ should_close' = (should_close \/ (k = KeyEscape /\ a = "Press"))]_vars

\* an Escape press has set the close flag inside the poll step
CallbackCloseWitness ==
    /\ pc = "poll"
    /\ should_close
    /\ last_event = [key |-> KeyEscape, action |-> "Press"]
    /\ keys[KeyEscape]

\* C6: between two Release events of a single-trigger key its action fires at
\* most once, however many frames run while it is held, and it fires only
\* after a Press that followed the last Release.
SingleTriggerPerPress ==
    \A k \in SingleTriggerKeys :
        /\ fired[k] <= 1
        /\ fired[k] >= 1 => pressed[k]

\* Space fired, is still held (a Repeat arrived), and process_input has run
\* again without a second firing
SingleTriggerWitness ==
    /\ fired[KeySpace] = 1
    /\ keys[KeySpace] /\ keys_processed[KeySpace]
    /\ last_event = [key |-> KeySpace, action |-> "Repeat"]
    /\ pc = "update"

\* C12: for an in-range key k, a Press sets keys[k] and leaves
\* keys_processed[k]; a Release clears both; a Repeat leaves both; the
\* entries of every other key stay as they were.
KeyEventEffect ==
    [][\A k \in TrackedKeys, a \in Actions :
          key_callback(k, a)
            => /\ a = "Press" => keys'[k] /\ keys_processed'[k] = keys_processed[k]
               /\ a = "Release" => ~keys'[k] /\ ~keys_processed'[k]
               /\ a = "Repeat" => keys'[k] = keys[k]
                                  /\ keys_processed'[k] = keys_processed[k]
               /\ \A j \in TrackedKeys \ {k} :
                     keys'[j] = keys[j] /\ keys_processed'[j] = keys_processed[j]]_vars

\* Space was released while Enter stays down and processed
KeyEventEffectWitness ==
    /\ last_event = [key |-> KeySpace, action |-> "Release"]
    /\ ~keys[KeySpace] /\ ~keys_processed[KeySpace]
    /\ keys[KeyEnter] /\ keys_processed[KeyEnter]
    /\ fired[KeySpace] = 0 /\ fired[KeyEnter] = 1

\* the statements of main(): the one thread runs them one after the other, and
\* each call returns (poll_events after the callbacks of the pending events)
MainStep ==
    \/ init_game_obj
    \/ loop_test
    \/ poll_events
    \/ process_input
    \/ update
    \/ render
    \/ swap_buffers
    \/ resource_manager_clear
    \/ drop_game_obj

\* main() under the fairness its sequential execution gives: a statement
\* that can run does run
LiveSpec == Init /\ [][Next]_vars /\ WF_vars(MainStep)

\* C13: an Escape press sets the close flag and keys[Escape]; the program
\* never clears the flag; the loop test that sees it leaves the loop; and
\* once the press is delivered main() eventually returns, having called
\* resource_manager::clear() and then drop_game_obj().
EscapeShutsDown ==
    /\ [][key_callback(KeyEscape, "Press") => should_close' /\ keys'[KeyEscape]]_vars
    /\ [][should_close => should_close']_vars
    /\ [][(pc = "loop_test" /\ should_close) => pc' = "clear"]_vars
    /\ [][pc' = "done" => (pc = "drop" /\ clear_calls = 1)]_vars
    /\ (last_event = [key |-> KeyEscape, action |-> "Press"])
          ~> (pc = "done" /\ clear_calls = 1 /\ GAME_OBJ_PTR = "freed")

\* main() has returned after an Escape press
EscapeShutsDownWitness ==
    /\ pc = "done"
    /\ should_close
    /\ keys[KeyEscape]
    /\ last_event = [key |-> KeyEscape, action |-> "Press"]
    /\ GAME_OBJ_PTR = "freed"

\* the steps that have run in the current loop iteration
StepsRun == {steps[i] : i \in DOMAIN steps}

\* C14 as stated: both calls get the same delta_time, the difference of this
\* frame's and the previous frame's sample, so that the deltas add up to the
\* latest sample; and delta_time is never negative.
DeltaTimeSumsToSample ==
    /\ "process_input" \in StepsRun => dt_hist.input = delta_time
    /\ "update" \in StepsRun => dt_hist.update = delta_time
    /\ delta_time = last_frame - dt_hist.prev
    /\ dt_hist.sum = last_frame
    /\ delta_time >= 0

\* C14, amended: both calls get the same delta_time; it is the f32 nearest
\* to the difference of the two f32 samples, and never negative; the deltas
\* add up to the latest sample as long as no sample was more than twice the
\* one before it (the subtractions are then exact).
DeltaTimeRounded ==
    /\ "process_input" \in StepsRun => dt_hist.input = delta_time
    /\ "update" \in StepsRun => dt_hist.update = delta_time
    /\ last_frame = F32Round(clock)
    /\ delta_time = F32Round(last_frame - dt_hist.prev)
    /\ delta_time >= 0
    /\ dt_hist.within2 => /\ delta_time = last_frame - dt_hist.prev
                          /\ dt_hist.sum = last_frame

\* a second frame whose subtraction was rounded has passed its delta_time to
\* both calls
DeltaTimeRoundedWitness ==
    /\ pc = "render"
    /\ dt_hist.prev > 0
    /\ delta_time # last_frame - dt_hist.prev
    /\ dt_hist.input = delta_time
    /\ dt_hist.update = delta_time
    /\ dt_hist.sum # last_frame

\* the steps that dereference GAME_OBJ_PTR through game_obj()/game_obj_mut():
\* the three calls of the loop body, and key_callback for a Press or Release
\* of a key in range
DerefStep ==
    \/ process_input
    \/ update
    \/ render
    \/ \E key \in EventKeys, action \in {"Press", "Release"} :
          InKeyRange(key) /\ key_callback(key, action)

\* C16: GAME_OBJ_PTR points to the live Game at every dereference: it is
\* null only before init_game_obj(), freed only once main() has left the loop
\* and called drop_game_obj(), and every step that dereferences it, the key
\* callback included, runs in between.
GamePointerValidAtUse ==
    /\ [][DerefStep => (GAME_OBJ_PTR = "valid" /\ GAME_OBJ_PTR' = "valid")]_vars
    /\ [][KeyEvent => (pc \in LoopPcs /\ GAME_OBJ_PTR = "valid")]_vars
    /\ [](GAME_OBJ_PTR = "null" <=> pc = "init_game")
    /\ [](GAME_OBJ_PTR = "freed" => pc = "done")
    /\ [](pc \in LoopPcs => GAME_OBJ_PTR = "valid")

\* a frame in which the callback and the three calls have used the pointer
GamePointerWitness ==
    /\ pc = "swap"
    /\ steps = <<"poll_events", "process_input", "update", "render">>
    /\ last_event = [key |-> KeyEnter, action |-> "Release"]
    /\ GAME_OBJ_PTR = "valid"

\* C19: process_input sees only what the poll left behind.  When a poll
\* delivered a Press of key k and then its Release, keys[k] and
\* keys_processed[k] are both false as process_input starts and k fires
\* nothing, in this frame or later (an action is only ever fired for a press
\* that has not been released); when the last thing the poll delivered for k
\* is a Press, keys[k] is true as process_input starts.
PressSeenAtPollEnd ==
    \A k \in TrackedKeys :
        /\ (pc = "process_input" /\ polled[k] = "PressRelease")
              => /\ ~keys[k]
                 /\ ~keys_processed[k]
                 /\ k \notin FiringKeys(keys, keys_processed)
                 /\ fired[k] = 0
        /\ (pc = "process_input" /\ polled[k] = "Press") => keys[k]
        /\ fired[k] > 0 => (pressed[k] /\ keys[k])

\* one poll delivered Press and Release of Space and a Press of Enter:
\* process_input is about to run with keys[Space] false and keys[Enter] true
PressSeenAtPollEndWitness ==
    /\ pc = "process_input"
    /\ polled[KeySpace] = "PressRelease"
    /\ polled[KeyEnter] = "Press"
    /\ ~keys[KeySpace]
    /\ keys[KeyEnter]
    /\ fired[KeySpace] = 0

(***************************************************************************)
(* Properties of the text renderer (checked under TextSpec).               *)
(***************************************************************************)
\* the GL textures that hold character c
TexturesOf(c) == {i \in 1..Len(gl_textures) : gl_textures[i].ch = c}

\* the sum over the first n characters of the text of (advance >> 6) * scale,
\* the advance being the one the atlas holds
RECURSIVE ScaledAdvanceSum(_, _, _)
ScaledAdvanceSum(text, n, scale) ==
    IF n = 0 THEN 0
    ELSE ScaledAdvanceSum(text, n - 1, scale)
         + (ft_helper.characters[text[n]].advance \div 64) * scale

\* C7: every character is rasterized and uploaded at most once: no two GL
\* textures hold the same character, the atlas entry of a character names
\* that one texture and keeps the metrics it was rasterized with, and every
\* quad drawn uses the texture of its character's atlas entry.
GlyphRasterizedOnce ==
    /\ \A c \in Chars : Cardinality(TexturesOf(c)) <= 1
    /\ Len(gl_textures) = Cardinality(DOMAIN ft_helper.characters)
    /\ \A c \in DOMAIN ft_helper.characters :
          LET ch == ft_helper.characters[c] IN
            /\ TexturesOf(c) = {ch.texture_id}
            /\ ch.advance = GlyphSlot(gl_textures[ch.texture_id].face, c).advance_x
            /\ ch.bearing.y = GlyphSlot(gl_textures[ch.texture_id].face, c).bitmap_top
    /\ \A i \in 1..Len(draws) :
          /\ draws[i].c \in DOMAIN ft_helper.characters
          /\ draws[i].texture = ft_helper.characters[draws[i].c].texture_id

\* "a" drawn twice in one call, from one texture, rasterized at a pixel size
\* that a later load has since changed
GlyphRasterizedOnceWitness ==
    /\ last_op = "render"
    /\ last_call.text = <<"a", "a">>
    /\ Len(draws) = 2
    /\ draws[1].texture = draws[2].texture
    /\ gl_textures[draws[1].texture].face # ft_helper.face

LoadResetsAtlas ==
    /\ last_op = "load" => DOMAIN ft_helper.characters = {}
    /\ last_op = "render" =>
          \A i \in 1..Len(draws) : gl_textures[draws[i].texture].face = ft_helper.face

\* C10: a character whose rasterization fails is skipped: the call does not
\* panic, the atlas gets no entry for it, and the other characters of the
\* text are drawn.
GlyphFailureSkipsCharacter ==
    (last_op = "render" /\ last_call.failed # "") =>
        /\ tpc = "ready"
        /\ last_call.failed \notin DOMAIN ft_helper.characters
        /\ \A j \in 1..Len(last_call.text) :
              last_call.text[j] # last_call.failed
                => \E i \in 1..Len(draws) : draws[i].c = last_call.text[j]

\* C15: every quad of a render_text_ex call is drawn at
\* y + (bearing.y of the atlas entry of 'H' - bearing.y of its glyph) * scale,
\* with the one reference entry for the whole text: glyphs of equal bearing.y
\* share their top edge, and a glyph with the bearing.y of 'H' is drawn at y.
GlyphBaseline ==
    \A i \in 1..Len(draws) :
        /\ {"H", draws[i].c} \subseteq DOMAIN ft_helper.characters
        /\ LET ref == ft_helper.characters["H"].bearing.y
               top == ft_helper.characters[draws[i].c].bearing.y
           IN /\ draws[i].ypos = last_call.y + (ref - top) * last_call.scale
              /\ top = ref => draws[i].ypos = last_call.y
              /\ \A j \in 1..Len(draws) :
                    ft_helper.characters[draws[j].c].bearing.y = top
                        => draws[j].ypos = draws[i].ypos

\* "Hg" drawn with 'H' rasterized at an earlier, smaller pixel size than 'g':
\* 'H' sits at y, 'g' lower by the difference of the two bearings
GlyphBaselineWitness ==
    /\ last_op = "render"
    /\ last_call.text = <<"H", "g">>
    /\ last_call.scale = 2
    /\ Len(draws) = 2
    /\ draws[1].ypos = last_call.y
    /\ gl_textures[draws[1].texture].face.size < gl_textures[draws[2].texture].face.size
    /\ draws[2].ypos = last_call.y + 2

\* C17: a render_text_ex call only adds to the atlas: no entry is removed or
\* replaced and no GL texture is lost, whatever the outcome; an empty text
\* changes nothing, rasterizes nothing and draws nothing; a non-empty text
\* that does not fail leaves the atlas with its previous characters plus the
\* distinct characters of the text plus 'H', one new texture per new
\* character, and one quad per character of the text, in order.
RenderOnlyAdds ==
    [][(last_op' = "render" /\ tpc' # "dropped")
         => LET old == ft_helper.characters
                new == ft_helper'.characters
                text == last_call'.text
                used == {text[i] : i \in DOMAIN text} \cup {"H"}
            IN /\ \A c \in DOMAIN old : c \in DOMAIN new /\ new[c] = old[c]
               /\ IsPrefix(gl_textures, gl_textures')
               /\ text = <<>> => /\ ft_helper' = ft_helper
                                 /\ gl_textures' = gl_textures
                                 /\ draws' = <<>>
                                 /\ tpc' = tpc
               /\ (text # <<>> /\ tpc' = "ready")
                    => /\ DOMAIN new = DOMAIN old \cup used
                       /\ Len(gl_textures')
                            = Len(gl_textures) + Cardinality(used \ DOMAIN old)
                       /\ Len(draws') = Len(text)
                       /\ \A i \in 1..Len(text) : draws'[i].c = text[i]]_vars

\* "g" rendered into an empty atlas: the atlas now holds "g" and the
\* reference character, which the text does not contain, and one quad is drawn
RenderOnlyAddsWitness ==
    /\ last_op = "render"
    /\ tpc = "ready"
    /\ last_call.text = <<"g">>
    /\ Len(draws) = 1
    /\ DOMAIN ft_helper.characters = {"g", "H"}
    /\ Len(gl_textures) = 2
    /\ gl_textures[2].ch = "H"

\* C18 as stated: once the renderer is dropped, every FreeType library and
\* face that its load calls created has been released, none of them twice;
\* without a load call nothing is released.
HandlesReleasedOnce ==
    tpc = "dropped"
      => /\ ft_heap.done_libs = 1..ft_heap.libs
         /\ ft_heap.done_faces = 1..Len(ft_heap.faces)
         /\ ~ft_heap.twice

(***************************************************************************)
(* Properties of get_path (checked under PathSpec).                        *)
(***************************************************************************)
\* the non-empty components of a path
RECURSIVE NonEmpty(_)
NonEmpty(parts) ==
    IF parts = <<>> THEN <<>>
    ELSE IF Head(parts) = <<>> THEN NonEmpty(Tail(parts))
    ELSE <<Head(parts)>> \o NonEmpty(Tail(parts))

Components(str) == NonEmpty(Split(str))

\* C11: get_path(p) is a non-empty path that starts with the working
\* directory and whose components are those of the working directory
\* followed by the segments of p in order (an empty segment adds no component).
GetPathJoinsOntoCwd ==
    path_call.done =>
        /\ path_call.result # <<>>
        /\ IsPrefix(path_call.cwd, path_call.result)
        /\ Components(path_call.result)
             = Components(path_call.cwd) \o Components(path_call.path)

\* "a/b" joined onto "/w/d"
GetPathWitness ==
    /\ path_call.done
    /\ path_call.cwd = <<"/", "w", "/", "d">>
    /\ path_call.path = <<"a", "/", "b">>
    /\ path_call.result = <<"/", "w", "/", "d", "/", "a", "/", "b">>

PathInit == MainInit /\ TextInit /\ path_call \in PathCalls

PathNext == get_path

PathSpec == PathInit /\ [][PathNext]_vars


TextNext ==
    \/ LoadCall
    \/ RenderCall
    \/ drop_text_renderer

TextSpec == Init /\ [][TextNext]_vars
====
